---- MODULE Spec2Model ----
(***************************************************************************)
(* Token Historical Prices (streamlit_app.py): one script run per press of *)
(* "Daten abrufen".  The run validates the sidebar inputs, looks the token *)
(* up on CoinMarketCap, fetches one OHLCV series for the whole year, then  *)
(* walks the calendar of the year issuing one USD/EUR lookup per day, and  *)
(* finally renders a table and a CSV download.  The three fetch functions  *)
(* are memoised by st.cache_data with a time to live.                      *)
(*                                                                         *)
(* Python values that may be None are options: <<>> is None, <<v>> is v.   *)
(* A date object is a record [year, month, day].  A text "YYYY-MM-DD" is    *)
(* the number its digits spell, YYYYMMDD, and a timestamp text             *)
(* "YYYY-MM-DDThh:mm:ss.000Z" is the pair <<YYYYMMDD, hhmmss>>; the empty  *)
(* date text is 0 and the empty timestamp text <<>>.                       *)
(* Prices and rates are integers (fixed-point), so products are exact.     *)
(***************************************************************************)
EXTENDS Integers, Sequences, FiniteSets, TLC

VARIABLES
    contract_address,       \* sidebar: text_input, stripped
    cmc_api_key,            \* sidebar: text_input, stripped
    exchange_rate_api_key,  \* sidebar: text_input, stripped
    selected_chain,         \* sidebar: selectbox
    year,                   \* sidebar: number_input
    cmcInfo,                \* upstream: how /v1/cryptocurrency/map answers
    cmcChart,               \* upstream: how /v2/cryptocurrency/ohlcv/historical answers
    fxKind,                 \* upstream: how exchangerate.host answers on its gap days
    revised,                \* upstream: it has revised the figures it serves
    now,                    \* wall clock, seconds
    ticks,                  \* number of clock advances so far
    info_cache,             \* st.cache_data store of fetch_token_info_cmc
    chart_cache,            \* st.cache_data store of fetch_market_chart_cmc
    rate_cache,             \* st.cache_data store of fetch_exchange_rate
    pc,                     \* position of the script run
    token_info,
    quotes,
    daily_quotes,
    current_date,
    results,
    error,                  \* st.error shown in this run (option)
    table,                  \* st.dataframe shown in this run (option)
    download,               \* st.download_button offered in this run (option)
    netlog,                 \* upstream requests issued in this run, in order
    prev                    \* what the previous run offered, and whether every
                            \* cache entry was unexpired when this run started

vars == <<contract_address, cmc_api_key, exchange_rate_api_key, selected_chain,
          year, cmcInfo, cmcChart, fxKind, revised, now, ticks, info_cache,
          chart_cache, rate_cache, pc, token_info, quotes, daily_quotes,
          current_date, results, error, table, download, netlog, prev>>

inputs == <<contract_address, cmc_api_key, exchange_rate_api_key,
            selected_chain, year>>
upstream == <<cmcInfo, cmcChart, fxKind>>
caches == <<info_cache, chart_cache, rate_cache>>
locals == <<token_info, quotes, daily_quotes, current_date, results>>
widgets == <<error, table, download>>

-----------------------------------------------------------------------------
(* Bounds and program constants *)

MaxTicks == 1            \* clock advances explored

MinYear == 2000
MaxYear == 2100
TtlCmc == 3600
TtlRate == 86400
HttpOk == 200

Years == {MinYear, 2023, 2024, MaxYear}
GapDays == {1, 3, 4}     \* days of the month on which the rate source has a gap

None == <<>>
Some(v) == <<v>>

chain_mapping ==
    [Ethereum |-> "ethereum", Arbitrum |-> "arbitrum", Optimism |-> "optimism"]

-----------------------------------------------------------------------------
(* datetime.date *)

IsLeap(y) == (y % 4 = 0) /\ ((y % 100 # 0) \/ (y % 400 = 0))

DaysInMonth(y, m) ==
    IF m = 2 THEN (IF IsLeap(y) THEN 29 ELSE 28)
    ELSE IF m \in {4, 6, 9, 11} THEN 30 ELSE 31

Date(y, m, d) == [year |-> y, month |-> m, day |-> d]

\* current_date += timedelta(days=1)
AddDay(dt) ==
    IF dt.day < DaysInMonth(dt.year, dt.month)
    THEN Date(dt.year, dt.month, dt.day + 1)
    ELSE IF dt.month < 12 THEN Date(dt.year, dt.month + 1, 1)
    ELSE Date(dt.year + 1, 1, 1)

\* date.__le__
DateLe(a, b) ==
    \/ a.year < b.year
    \/ a.year = b.year /\ a.month < b.month
    \/ a.year = b.year /\ a.month = b.month /\ a.day <= b.day

DateLt(a, b) == DateLe(a, b) /\ a # b

\* the loop bound with < in place of <=
LoopCondStrict(cur, end) == DateLt(cur, end)

\* while current_date <= end_date_obj
LoopCond(cur, end) == DateLe(cur, end)

\* strftime("%Y-%m-%d")
Strftime(dt) == dt.year * 10000 + dt.month * 100 + dt.day

\* the timestamp text of a date and a time of day
Stamp(y, m, d, hh, mm, ss) ==
    <<y * 10000 + m * 100 + d, hh * 10000 + mm * 100 + ss>>

\* text[:10]
Prefix10(ts) == IF ts = <<>> THEN 0 ELSE ts[1]

\* the day of the month a date text names
DayOf(date_str) == date_str % 100

\* dict.get(key, None)
Get(d, k) == IF k \in DOMAIN d THEN Some(d[k]) ELSE None

-----------------------------------------------------------------------------
(* The upstream services, as the requests library shows them *)

\* GET /v1/cryptocurrency/map
InfoResponse ==
    CASE cmcInfo = "http_error" -> [status |-> 500, data |-> <<>>]
      [] cmcInfo = "empty_data" -> [status |-> HttpOk, data |-> <<>>]
      [] cmcInfo = "no_id" ->
            [status |-> HttpOk, data |-> <<[name |-> "Token", symbol |-> "tok"]>>]
      [] OTHER ->
            [status |-> HttpOk,
             data |-> <<[id |-> 1, name |-> "Token", symbol |-> "tok"]>>]

\* the quote list of a year: two records on Jan 1, a zero close on Jan 2, no
\* record on Jan 3, a record without close on Jan 4, a record without
\* time_close, one on Dec 31 and one of the following year
QuoteList(y, g) ==
    << [time_close |-> Stamp(y, 1, 1, 10, 0, 0), close |-> 100 + g],
       [time_close |-> Stamp(y, 1, 1, 15, 0, 0), close |-> 110 + g],
       [time_close |-> Stamp(y, 1, 2, 23, 59, 59), close |-> 0],
       [time_close |-> Stamp(y, 1, 4, 23, 59, 59)],
       [close |-> 77],
       [time_close |-> Stamp(y, 12, 31, 23, 59, 59), close |-> 250 + g],
       [time_close |-> Stamp(y + 1, 1, 1, 23, 59, 59), close |-> 300] >>

Revision == IF revised THEN 1 ELSE 0

\* GET /v2/cryptocurrency/ohlcv/historical
ChartResponse(y) ==
    CASE cmcChart = "http_error" -> [status |-> 500, json |-> [error |-> "x"]]
      [] cmcChart = "no_quotes" ->
            [status |-> HttpOk, json |-> [data |-> [quotes |-> <<>>]]]
      [] OTHER ->
            [status |-> HttpOk, json |-> [data |-> [quotes |-> QuoteList(y, Revision)]]]

IsGap(date_str) == fxKind # "ok" /\ DayOf(date_str) \in GapDays

FxRate(date_str, g) == 900 + DayOf(date_str) + 50 * g

\* GET https://api.exchangerate.host/{date}
\* connected: requests.get returned; parses: response.json() returns
FxResponse(date_str) ==
    IF ~IsGap(date_str)
    THEN [connected |-> TRUE, status |-> HttpOk, parses |-> TRUE,
          json |-> [rates |-> [EUR |-> FxRate(date_str, Revision)]]]
    ELSE CASE fxKind = "http_error" ->
                [connected |-> TRUE, status |-> 500, parses |-> TRUE,
                 json |-> [error |-> "x"]]
           [] fxKind = "no_rate" ->
                [connected |-> TRUE, status |-> HttpOk, parses |-> TRUE,
                 json |-> [success |-> FALSE]]
           [] fxKind = "malformed" ->
                [connected |-> TRUE, status |-> HttpOk, parses |-> FALSE,
                 json |-> [error |-> "x"]]
           [] OTHER ->
                [connected |-> FALSE, status |-> 0, parses |-> FALSE,
                 json |-> [error |-> "x"]]

-----------------------------------------------------------------------------
(* st.cache_data(ttl=...) *)

Return(v) == [raised |-> FALSE, value |-> v]
Raise(msg) == [raised |-> TRUE, value |-> msg]

Fresh(cache, key, ttl) == key \in DOMAIN cache /\ now - cache[key].at < ttl

\* a store that keeps no None
StoreUnlessNone(cache, key, value) ==
    IF value = None THEN cache
    ELSE [k \in DOMAIN cache \cup {key} |->
            IF k = key THEN [value |-> value, at |-> now] ELSE cache[k]]

\* the decorator stores whatever the function returns, None included
Store(cache, key, value) ==
    [k \in DOMAIN cache \cup {key} |->
        IF k = key THEN [value |-> value, at |-> now] ELSE cache[k]]

\* an exception leaves the store as it is
Stored(cache, key, outcome) ==
    IF outcome.raised THEN cache ELSE Store(cache, key, outcome.value)

AllFresh ==
    /\ \A k \in DOMAIN info_cache : Fresh(info_cache, k, TtlCmc)
    /\ \A k \in DOMAIN chart_cache : Fresh(chart_cache, k, TtlCmc)
    /\ \A k \in DOMAIN rate_cache : Fresh(rate_cache, k, TtlRate)

-----------------------------------------------------------------------------
(* The bodies of the three fetch functions *)

fetch_token_info_cmc(resp) ==
    IF resp.status # HttpOk THEN Raise("Fehler beim Abruf der Token-Informationen (CMC)")
    ELSE IF Len(resp.data) = 0 THEN Raise("Keine Token-Informationen gefunden.")
    ELSE Return(resp.data[1])

fetch_market_chart_cmc(resp) ==
    IF resp.status # HttpOk THEN Raise("Fehler beim Abruf der Preisdaten (CMC)")
    ELSE Return(resp.json)

fetch_exchange_rate(resp) ==
    IF ~resp.connected THEN Raise("ConnectionError")
    ELSE IF resp.status = HttpOk
         THEN IF ~resp.parses THEN Raise("JSONDecodeError")
              ELSE IF "rates" \in DOMAIN resp.json
                   THEN Return(Get(resp.json.rates, "EUR"))
                   ELSE Return(None)
         ELSE Return(None)

-----------------------------------------------------------------------------
(* The pieces of the button handler *)

InfoKey == <<contract_address, chain_mapping[selected_chain], cmc_api_key>>
ChartKey(id) == <<id, Date(year, 1, 1), Date(year, 12, 31), cmc_api_key>>
RateKey(day_str) == <<day_str, exchange_rate_api_key>>

\* market_data.get("data", {}).get("quotes", [])
QuotesOf(market_data) ==
    IF "data" \in DOMAIN market_data /\ "quotes" \in DOMAIN market_data.data
    THEN market_data.data.quotes ELSE <<>>

\* the test with "quotes is None" in place of "not quotes"
NoQuotesIsNone(q) == FALSE

\* if not quotes
NoQuotes(q) == Len(q) = 0

\* for record in quotes: daily_quotes[date_str] = close_price
RECURSIVE DailyQuotes(_, _)
DailyQuotes(q, dq) ==
    IF q = <<>> THEN dq
    ELSE LET record == Head(q)
             ts == IF "time_close" \in DOMAIN record THEN record.time_close ELSE <<>>
             date_str == Prefix10(ts)
             close_price == Get(record, "close")
         IN  DailyQuotes(Tail(q),
                IF date_str # 0
                THEN [k \in DOMAIN dq \cup {date_str} |->
                        IF k = date_str THEN close_price ELSE dq[k]]
                ELSE dq)

\* daily_quotes.get(day_str, None)
TokenPriceUsd(dq, day_str) == IF day_str \in DOMAIN dq THEN dq[day_str] ELSE None

\* the conversion with truth values in place of "is not None"
TokenPriceEurTruthy(usd, rate) ==
    IF usd # None /\ usd # Some(0) /\ rate # None /\ rate # Some(0)
    THEN Some(usd[1] * rate[1]) ELSE None

\* token_price_usd * usd_to_eur if both are not None else None
TokenPriceEur(usd, rate) ==
    IF usd # None /\ rate # None THEN Some(usd[1] * rate[1]) ELSE None

Row(day_str, usd, rate, eur) ==
    [Date |-> day_str, usd |-> usd, rate |-> rate, eur |-> eur]

\* pd.DataFrame(results).to_csv(index=False): a header line, then one line per
\* row in order, None as an empty field
ToCsv(rows) ==
    <<<<"Date", "Token Price USD", "USD/EUR", "Token Price EUR">>>> \o
    [i \in 1..Len(rows) |->
        <<rows[i].Date, rows[i].usd, rows[i].rate, rows[i].eur>>]

-----------------------------------------------------------------------------
Init ==
    /\ contract_address \in {"", "0xA"}
    /\ cmc_api_key \in {"", "K"}
    /\ exchange_rate_api_key = ""
    /\ selected_chain = "Ethereum"
    /\ year \in Years
    /\ cmcInfo \in {"http_error", "empty_data", "no_id", "ok"}
    /\ cmcChart \in {"http_error", "no_quotes", "quotes"}
    /\ fxKind \in {"ok", "http_error", "no_rate", "malformed", "transport"}
    \* the gap-free source and the 200-without-rate answer are explored for
    \* one year, the failing source for every year
    /\ fxKind \in {"ok", "no_rate"} => year = 2024
    /\ revised = FALSE
    /\ now = 0
    /\ ticks = 0
    /\ info_cache = <<>>
    /\ chart_cache = <<>>
    /\ rate_cache = <<>>
    /\ pc = "idle"
    /\ token_info = None
    /\ quotes = <<>>
    /\ daily_quotes = <<>>
    /\ current_date = Date(year, 1, 1)
    /\ results = <<>>
    /\ error = None
    /\ table = None
    /\ download = None
    /\ netlog = <<>>
    /\ prev = [download |-> None, fresh |-> FALSE]

\* the clock passes a time to live while the app waits for the next press
Tick ==
    /\ pc = "idle"
    /\ ticks < MaxTicks
    /\ \E dt \in {TtlCmc, TtlRate} : now' = now + dt
    /\ ticks' = ticks + 1
    /\ UNCHANGED <<inputs, upstream, revised, caches, pc, locals, widgets, netlog, prev>>

\* the upstream services revise the figures they serve
Revise ==
    /\ pc = "idle"
    /\ ~revised
    /\ revised' = TRUE
    /\ UNCHANGED <<inputs, upstream, now, ticks, caches, pc, locals, widgets,
                   netlog, prev>>

InputsMissingKeyUnchecked == contract_address = ""

InputsMissing == contract_address = "" \/ cmc_api_key = ""

\* if fetch_button: the script reruns from the top, the input checks first
Press ==
    /\ pc = "idle"
    /\ prev' = [download |-> download, fresh |-> AllFresh]
    /\ netlog' = <<>>
    /\ table' = None
    /\ download' = None
    /\ token_info' = None
    /\ quotes' = <<>>
    /\ daily_quotes' = <<>>
    /\ results' = <<>>
    /\ current_date' = Date(year, 1, 1)
    /\ IF InputsMissing
       THEN /\ error' = Some(IF contract_address = ""
                             THEN "Bitte gib eine Token Contract-Adresse ein."
                             ELSE "Bitte gib einen CoinMarketCap API Key ein.")
            /\ pc' = "idle"
       ELSE /\ error' = None
            /\ pc' = "token_info"
    /\ UNCHANGED <<inputs, upstream, revised, now, ticks, caches>>

\* token_id is None
TokenIdMissing(info) == "id" \notin DOMAIN info

TokenInfo ==
    /\ pc = "token_info"
    /\ LET hit == Fresh(info_cache, InfoKey, TtlCmc)
           out == IF hit THEN Return(info_cache[InfoKey].value)
                  ELSE fetch_token_info_cmc(InfoResponse)
       IN  /\ netlog' = IF hit THEN netlog
                        ELSE Append(netlog, <<"map", InfoKey>>)
           /\ info_cache' = IF hit THEN info_cache ELSE Stored(info_cache, InfoKey, out)
           /\ IF out.raised
              THEN /\ error' = Some(out.value)
                   /\ pc' = "idle"
                   /\ UNCHANGED token_info
              ELSE /\ token_info' = Some(out.value)
                   /\ IF TokenIdMissing(out.value)
                      THEN /\ error' = Some("Kein Token ID in den abgerufenen Daten gefunden.")
                           /\ pc' = "idle"
                      ELSE /\ pc' = "market_chart"
                           /\ UNCHANGED error
    /\ UNCHANGED <<inputs, upstream, revised, now, ticks, chart_cache, rate_cache,
                   quotes, daily_quotes, current_date, results, table, download, prev>>

MarketChart ==
    /\ pc = "market_chart"
    /\ LET key == ChartKey(token_info[1].id)
           hit == Fresh(chart_cache, key, TtlCmc)
           out == IF hit THEN Return(chart_cache[key].value)
                  ELSE fetch_market_chart_cmc(ChartResponse(year))
       IN  /\ netlog' = IF hit THEN netlog
                        ELSE Append(netlog, <<"ohlcv", key>>)
           /\ chart_cache' = IF hit THEN chart_cache ELSE Stored(chart_cache, key, out)
           /\ IF out.raised
              THEN /\ error' = Some(out.value)
                   /\ pc' = "idle"
                   /\ UNCHANGED <<quotes, daily_quotes>>
              ELSE /\ quotes' = QuotesOf(out.value)
                   /\ IF NoQuotes(QuotesOf(out.value))
                      THEN /\ error' = Some("Es wurden keine Preisdaten gefunden.")
                           /\ pc' = "idle"
                           /\ UNCHANGED daily_quotes
                      ELSE /\ daily_quotes' = DailyQuotes(QuotesOf(out.value), <<>>)
                           /\ pc' = "rates"
                           /\ UNCHANGED error
    /\ current_date' = Date(year, 1, 1)
    /\ results' = <<>>
    /\ UNCHANGED <<inputs, upstream, revised, now, ticks, info_cache, rate_cache,
                   token_info, table, download, prev>>

\* one pass of the while loop
RateStep ==
    /\ pc = "rates"
    /\ LoopCond(current_date, Date(year, 12, 31))
    /\ LET day_str == Strftime(current_date)
           token_price_usd == TokenPriceUsd(daily_quotes, day_str)
           key == RateKey(day_str)
           hit == Fresh(rate_cache, key, TtlRate)
           out == IF hit THEN Return(rate_cache[key].value)
                  ELSE fetch_exchange_rate(FxResponse(day_str))
       IN  /\ netlog' = IF hit THEN netlog
                        ELSE Append(netlog, <<"fx", day_str>>)
           /\ rate_cache' = IF hit THEN rate_cache ELSE Stored(rate_cache, key, out)
           /\ IF out.raised
              THEN /\ error' = Some(out.value)
                   /\ pc' = "idle"
                   /\ UNCHANGED <<results, current_date>>
              ELSE /\ results' = Append(results,
                          Row(day_str, token_price_usd, out.value,
                              TokenPriceEur(token_price_usd, out.value)))
                   /\ current_date' = AddDay(current_date)
                   /\ UNCHANGED <<error, pc>>
    /\ UNCHANGED <<inputs, upstream, revised, now, ticks, info_cache, chart_cache,
                   token_info, quotes, daily_quotes, table, download, prev>>

\* after the loop: the table and the download button
Render ==
    /\ pc = "rates"
    /\ ~LoopCond(current_date, Date(year, 12, 31))
    /\ table' = Some(results)
    /\ download' = Some([data |-> ToCsv(results),
                         file_name |-> <<token_info[1].symbol, year>>])
    /\ pc' = "idle"
    /\ UNCHANGED <<inputs, upstream, revised, now, ticks, caches, locals, error,
                   netlog, prev>>

Next == Tick \/ Revise \/ Press \/ TokenInfo \/ MarketChart \/ RateStep \/ Render

Spec == Init /\ [][Next]_vars

-----------------------------------------------------------------------------
(* Properties *)

Abs(n) == IF n < 0 THEN -n ELSE n

ReportShown == pc = "idle" /\ download # None

MonthOf(date_str) == (date_str \div 100) % 100
YearOf(date_str) == date_str \div 10000

RECURSIVE DaysBefore(_, _)
DaysBefore(y, m) == IF m <= 1 THEN 0 ELSE DaysInMonth(y, m - 1) + DaysBefore(y, m - 1)

\* the position of a date text in its year, 1 for Jan 1
DayNumber(date_str) ==
    DaysBefore(YearOf(date_str), MonthOf(date_str)) + DayOf(date_str)

ValidDate(date_str) ==
    /\ MonthOf(date_str) \in 1..12
    /\ DayOf(date_str) \in 1..DaysInMonth(YearOf(date_str), MonthOf(date_str))

\* C1: a report that is shown has exactly one row per date of the requested
\* year, Jan 1 to Dec 31 in order (the i-th row is the i-th day of the year),
\* hence 366 rows in a Gregorian leap year and 365 otherwise, whatever prices
\* or rates are absent; the CSV has the same rows under one header line.
C1_FullCalendar ==
    download # None =>
        LET rows == table[1]
            n == IF (year % 4 = 0 /\ year % 100 # 0) \/ year % 400 = 0
                 THEN 366 ELSE 365
        IN  /\ Len(rows) = n
            /\ Len(download[1].data) = n + 1
            /\ \A i \in 1..Len(rows) :
                  /\ YearOf(rows[i].Date) = year
                  /\ ValidDate(rows[i].Date)
                  /\ DayNumber(rows[i].Date) = i
                  /\ download[1].data[i + 1][1] = rows[i].Date
            /\ rows[1].Date = year * 10000 + 101
            /\ rows[n].Date = year * 10000 + 1231

\* a report of a year that is no leap year though divisible by 4, built
\* while the rate source fails on its gap days and most days have no price
C1_Witness ==
    /\ ReportShown
    /\ year = MaxYear
    /\ fxKind = "http_error"
    /\ Len(results) = 365
    /\ \E i \in 1..Len(results) : results[i].usd = None /\ results[i].rate = None

\* C2: in every row of a report that is shown the EUR price is present
\* exactly when the USD price and the rate both are, and then it is their
\* product; a row that lacks an input is in the report with no EUR price,
\* and the run showed no error.
C2_EurIffBoth ==
    download # None =>
        /\ error = None
        /\ \A i \in 1..Len(table[1]) :
              LET r == table[1][i]
              IN  /\ r.eur # None <=> (r.usd # None /\ r.rate # None)
                  /\ r.eur # None => r.eur[1] = r.usd[1] * r.rate[1]
                  /\ download[1].data[i + 1] = <<r.Date, r.usd, r.rate, r.eur>>

\* a report with all four cases: price only (Jan 1), a zero price with a rate
\* (Jan 2), neither (Jan 3), rate only (Jan 5)
C2_Witness ==
    /\ ReportShown
    /\ fxKind \in {"http_error", "no_rate"}
    /\ results[1].usd # None /\ results[1].rate = None /\ results[1].eur = None
    /\ results[2].usd = Some(0) /\ results[2].rate # None /\ results[2].eur = Some(0)
    /\ results[3].usd = None /\ results[3].rate = None /\ results[3].eur = None
    /\ results[5].usd = None /\ results[5].rate # None /\ results[5].eur = None

\* the stored value of a fetch that gave nothing is about to be reused
RateCallReusesAbsence ==
    /\ pc = "rates"
    /\ LoopCond(current_date, Date(year, 12, 31))
    /\ Fresh(rate_cache, <<Strftime(current_date), exchange_rate_api_key>>, TtlRate)
    /\ rate_cache[<<Strftime(current_date), exchange_rate_api_key>>].value = None

ChartCallReusesAbsence ==
    /\ pc = "market_chart"
    /\ \E k \in DOMAIN chart_cache :
          /\ k = <<token_info[1].id, Date(year, 1, 1), Date(year, 12, 31), cmc_api_key>>
          /\ Fresh(chart_cache, k, TtlCmc)
          /\ Len(QuotesOf(chart_cache[k].value)) = 0

\* C3: a failed or empty fetch is never cached: a call whose arguments last
\* gave a failure or no value, made again within the time to live, issues a
\* new upstream request.
C3_AbsenceNotCached ==
    [][(RateCallReusesAbsence \/ ChartCallReusesAbsence)
            => Len(netlog') = Len(netlog) + 1]_vars

\* the run got past the token lookup and has ended
PriceStageEnded ==
    pc = "idle" /\ token_info # None /\ "id" \in DOMAIN token_info[1]

\* C4: when the price request fails or the quote list is empty, no row is
\* built, no table and no download is ever shown, and the run ends with an
\* error on the page.
C4_NoDataNoReport ==
    cmcChart \in {"http_error", "no_quotes"} =>
        /\ results = <<>>
        /\ table = None
        /\ download = None
        /\ \A i \in 1..Len(netlog) : netlog[i][1] # "fx"
        /\ PriceStageEnded => error # None

C4_Witness ==
    /\ PriceStageEnded
    /\ cmcChart = "no_quotes"
    /\ error = Some("Es wurden keine Preisdaten gefunden.")
    /\ download = None

\* C5: a rate lookup that fails for one date, in whatever way, ends nothing:
\* the row of that date is added with no rate and no EUR price and the loop
\* goes on.
C5_RateFailureNotTerminal ==
    [][(pc = "rates" /\ LoopCond(current_date, Date(year, 12, 31))
            /\ IsGap(Strftime(current_date)))
        => /\ pc' = "rates"
           /\ Len(results') = Len(results) + 1
           /\ results'[Len(results')].Date = Strftime(current_date)
           /\ results'[Len(results')].rate = None
           /\ results'[Len(results')].eur = None]_vars

\* C6: a run that starts while the previous run's report is on the page and
\* every cache entry is unexpired issues no upstream request and ends with
\* the same download (same CSV, same file name).
C6_Idempotent ==
    (prev.download # None /\ prev.fresh) =>
        /\ netlog = <<>>
        /\ pc = "idle" => download = prev.download

\* the second of two runs, the upstream having revised its figures between
\* them, on a rate source with failing days
C6_Witness ==
    /\ ReportShown
    /\ prev.download # None
    /\ prev.fresh
    /\ revised
    /\ fxKind = "http_error"
    /\ Len(download[1].data) > 365

\* the rate of the most recent date before row j + 1 on which the source had one
RECURSIVE PriorRate(_, _)
PriorRate(rows, j) ==
    IF j = 0 THEN None
    ELSE IF ~IsGap(rows[j].Date) THEN rows[j].rate
    ELSE PriorRate(rows, j - 1)

\* C7: the rate column is forward-filled: a date on which the source has no
\* rate carries the rate of the most recent earlier date that has one, and is
\* absent only before the first such date.
C7_ForwardFilled ==
    download # None =>
        \A i \in 1..Len(results) :
            IsGap(results[i].Date) => results[i].rate = PriorRate(results, i - 1)

\* the records of a quote list that fall on a date
OnDate(q, date_str) ==
    {i \in 1..Len(q) :
        "time_close" \in DOMAIN q[i] /\ Prefix10(q[i].time_close) = date_str}

NoonSeconds == 12 * 3600

\* seconds since midnight of the time of day hhmmss
SecondsOfDay(t) ==
    (t \div 10000) * 3600 + ((t \div 100) % 100) * 60 + (t % 100)

NoonDistance(record) == Abs(SecondsOfDay(record.time_close[2]) - NoonSeconds)

\* C8: the USD price of a row is that of the record of its date closest to
\* 12:00:00, and absent when no record falls on the date.
C8_NearestToNoon ==
    download # None =>
        \A i \in 1..Len(results) :
            LET on == OnDate(quotes, results[i].Date)
            IN  IF on = {} THEN results[i].usd = None
                ELSE \E k \in on :
                        /\ \A l \in on : NoonDistance(quotes[k]) <= NoonDistance(quotes[l])
                        /\ results[i].usd = Get(quotes[k], "close")

Rank(e) == CASE e[1] = "map" -> 1 [] e[1] = "ohlcv" -> 2 [] OTHER -> 3

InOrder(a, b) ==
    \/ Rank(a) < Rank(b)
    \/ Rank(a) = 3 /\ Rank(b) = 3 /\ a[2] < b[2]

\* C10: within one run no request is issued when the contract address or the
\* CoinMarketCap key is empty; otherwise the requests issued are, in this
\* order, at most one token lookup, at most one price request, and rate
\* lookups in ascending date order; a price request is issued only with a
\* token that has an id, and a rate lookup only with a quote list that is not
\* empty.
C10_RequestOrder ==
    /\ (contract_address = "" \/ cmc_api_key = "") => netlog = <<>>
    /\ Len(netlog) >= 2 =>
          InOrder(netlog[Len(netlog) - 1], netlog[Len(netlog)])
    /\ pc = "idle" =>
          \A i \in 1..(Len(netlog) - 1) : InOrder(netlog[i], netlog[i + 1])
    /\ netlog # <<>> =>
          LET last == netlog[Len(netlog)]
          IN  /\ Rank(last) >= 2 =>
                    /\ token_info # None
                    /\ "id" \in DOMAIN token_info[1]
                    /\ cmcInfo = "ok"
              /\ Rank(last) = 3 =>
                    /\ Len(quotes) > 0
                    /\ cmcChart = "quotes"
                    /\ last[2] \div 10000 = year

\* a first run that issued every request: the token lookup, the price
\* request, and a rate lookup for each day of a leap year
C10_Witness ==
    /\ ReportShown
    /\ Len(netlog) = 368
    /\ netlog[1][1] = "map"
    /\ netlog[2][1] = "ohlcv"
    /\ netlog[368] = <<"fx", year * 10000 + 1231>>

====
